---- MODULE Spec2Model ----
(***************************************************************************)
(* Fund Manager orchestrator (src/fund_manager/fund_manager.py).           *)
(*                                                                         *)
(* One consultation: fund_manager_entrypoint -> run_consultation -> the    *)
(* compiled graph financial -> portfolio -> risk -> END.  Each node writes *)
(* a node_start marker, calls AgentClient.call_agent_with_streaming (which *)
(* forwards the decoded records of the remote stream to the writer), writes*)
(* a node_complete marker, calls AgentClient.save_to_memory and stores the *)
(* result in the threaded state.                                           *)
(*                                                                         *)
(* Python values are records [k, v]: k is the Python type, v the content   *)
(* (a dict is named by v: "U" is the user request {"age": 34}, "R" the     *)
(* result object {"a": 1}).                                                *)
(* Chunks written to the stream writer are records too: a dict has         *)
(* k = "dict" and its keys as further fields, a decoded JSON number is     *)
(* [k |-> "int", v |-> number].                                            *)
(*                                                                         *)
(* Specifications:                                                         *)
(*   Spec            one consultation over every kind of stream line;      *)
(*   SpecInputs      one consultation over the payloads (with and without  *)
(*                   a session_id) and the results an agent can report;    *)
(*   SpecRequests    consecutive consultations in one process, with the    *)
(*                   wall clock and a Memory Service that keeps its events;*)
(*   SpecConcurrent  two requests whose steps interleave in one process;   *)
(*   SpecExtract     extract_json_from_text of the agents, a pure function;*)
(*   FairSpecInputs  SpecInputs with calls that come back and streams that *)
(*                   end: the termination of a consultation;               *)
(*   SpecConsumer    invoke_fund_manager of the web client                 *)
(*                   (src/fund_manager/app.py) reading a stream;           *)
(*   SpecAdapter     the adapters of the three agents over the events of   *)
(*                   the model.                                            *)
(***************************************************************************)
EXTENDS Integers, Sequences, FiniteSets, TLC

VARIABLES
    pc,            \* position of the consultation in the code
    node,          \* the graph node being executed
    state,         \* FundManagementState threaded through the graph
    final_result,  \* local of call_agent_with_streaming
    result,        \* local of the node: what call_agent_with_streaming returned
    events,        \* the chunks yielded to the caller by run_consultation, in order
    invocations,   \* the invoke_agent_runtime calls made, in order
    received,      \* per agent, the lines iter_lines has delivered so far
    memory,        \* the create_event calls the Memory Service accepted, in order
    memory_calls,  \* every create_event call the consultation made, with its outcome
    exception,     \* the exception that escaped to the caller, or NoException
    linesLeft,     \* lines the remote streams may still deliver
    now,           \* the reading of the wall clock (datetime.now()), in ticks
    sessions,      \* the consultations started so far: payload, time, session id
    advisor,       \* the module global `advisor`: None or the FundManager
    constructions, \* number of FundManager() calls made so far
    agent_client,  \* the module global `agent_client`: its arns and memory_id
    tasks,         \* concurrent requests: per request, the locals of its call
    text_content,  \* extract_json_from_text: the argument
    extracted,     \* extract_json_from_text: the value returned, or NotCalled
    consumer,      \* invoke_fund_manager of the web client: its locals
    adapter        \* an agent adapter: the model events read, the events yielded

\* The locals of the consultation the process is running.
consultationVars == <<pc, node, state, final_result, result, events,
                      invocations, received, memory_calls, exception, linesLeft>>

\* The variables that no step of a node changes.
processVars == <<now, sessions, advisor, constructions, agent_client, tasks,
                 text_content, extracted, consumer, adapter>>

vars == <<pc, node, state, final_result, result, events, invocations,
          received, memory, memory_calls, exception, linesLeft, now, sessions,
          advisor, constructions, agent_client, tasks, text_content, extracted,
          consumer, adapter>>

----------------------------------------------------------------------------
(* Bounds *)

\* Total number of lines the remote streams deliver to the process.
MaxLines == 3

\* Number of requests the process serves one after the other.
MaxRequests == 2

\* Total number of lines the streams deliver when the process serves
\* several requests.
MaxRequestLines == 2

\* Number of lines the streams deliver to each of the concurrent requests.
MaxTaskLines == 1

\* Length of the texts extract_json_from_text is applied to.
MaxLen == 4

\* The resolution of the clock: ticks per second.
TicksPerSecond == 2

\* Number of lines the web client reads from the stream of a consultation.
MaxConsumerLines == 3

\* Number of events the model delivers to an agent adapter.
MaxModelEvents == 3

\* The clock reading when the process starts: 2026-01-01 00:00:59.
ClockStart == 59 * TicksPerSecond

----------------------------------------------------------------------------
(* Python values *)

None == [k |-> "None", v |-> ""]
Str(s) == [k |-> "str", v |-> s]
Dict(d) == [k |-> "dict", v |-> d]

\* Python truthiness (`not x`) of the values the model holds.
Truthy(x) == x.k # "None" /\ ~(x.k = "str" /\ x.v = "")

\* str(x)
PyStr(x) ==
    CASE x.k = "str" -> x.v
      [] x.k = "None" -> "None"
      [] x.k = "dict" -> IF x.v = "U" THEN "{'age': 34}" ELSE "{'a': 1}"

\* json.dumps(x, ensure_ascii=False) of a dict
JsonDumps(x) == IF x.v = "U" THEN "{\"age\": 34}" ELSE "{\"a\": 1}"

----------------------------------------------------------------------------
(* The graph *)

\* workflow.add_node
NodeSet == {"financial", "portfolio", "risk"}
END == "__end__"

\* Mutant of Edge: the edge financial -> risk instead of financial -> portfolio.
EdgeSkipsPortfolio(n) ==
    CASE n = "financial" -> "risk"
      [] n = "portfolio" -> "risk"
      [] n = "risk" -> END

\* workflow.set_entry_point / workflow.add_edge
EntryPoint == "financial"

\* Mutant of Edge: risk leads back to financial.
EdgeLoopsBack(n) ==
    CASE n = "financial" -> "portfolio"
      [] n = "portfolio" -> "risk"
      [] n = "risk" -> "financial"
Edge(n) ==
    CASE n = "financial" -> "portfolio"
      [] n = "portfolio" -> "risk"
      [] n = "risk" -> END

\* The field of the threaded state each node writes.
\* Mutant of StateField: risk_node stores its result in financial_analysis.
StateFieldRiskOverwrites(n) ==
    CASE n = "financial" -> "financial_analysis"
      [] n = "portfolio" -> "portfolio_recommendation"
      [] n = "risk" -> "financial_analysis"

StateField(n) ==
    CASE n = "financial" -> "financial_analysis"
      [] n = "portfolio" -> "portfolio_recommendation"
      [] n = "risk" -> "risk_analysis"

\* Mutant of NodeInput: risk_node reads financial_analysis.
NodeInputRiskReadsFinancial(n, st) ==
    CASE n = "financial" -> st.user_input
      [] n = "portfolio" -> st.financial_analysis
      [] n = "risk" -> st.financial_analysis

\* The value each node passes to its agent and to save_to_memory.
NodeInput(n, st) ==
    CASE n = "financial" -> st.user_input
      [] n = "portfolio" -> st.financial_analysis
      [] n = "risk" -> st.portfolio_recommendation

----------------------------------------------------------------------------
(* Lines of a remote stream: response["response"].iter_lines(chunk_size=1) *)

\* A line is the sequence of its parts: the "data: " prefix, when the line
\* has it, is the first part and the rest of the line the second.  The loop
\* treats every record that is not a streaming_complete alike, so text_chunk
\* and error stand for the records of the other types (tool_use,
\* tool_result) as well.
Prefix == "data: "
BadBytes == "\\xff"

EmptyLine == <<>>
NoPrefixLine == <<"event: ping">>
BadJsonLine == <<Prefix, "{oops">>
NonObjectLine == <<Prefix, "5">>
BadUtf8Line == <<BadBytes>>
TextChunkLine == <<Prefix, "{\"type\": \"text_chunk\", \"data\": \"t\"}">>
ErrorLine == <<Prefix, "{\"type\": \"error\", \"error\": \"boom\"}">>
CompleteLine == <<Prefix, "{\"type\": \"streaming_complete\", \"result\": \"A\"}">>
CompleteDictLine ==
    <<Prefix, "{\"type\": \"streaming_complete\", \"result\": {\"a\": 1}}">>

CompleteEmptyLine == <<Prefix, "{\"type\": \"streaming_complete\", \"result\": \"\"}">>
CompleteNoResultLine == <<Prefix, "{\"type\": \"streaming_complete\"}">>

\* Lines of the stream the fund manager serves to the web client: its
\* markers, the records of the agents it forwards (tool_use and tool_result
\* among them), and records of types the client does not know.  A tool name
\* is the sequence of its parts between "___".
NodeStartFinancialLine ==
    <<Prefix, "{\"type\": \"node_start\", \"agent_name\": \"financial\"}">>
NodeStartPortfolioLine ==
    <<Prefix, "{\"type\": \"node_start\", \"agent_name\": \"portfolio\"}">>
NodeCompleteFinancialLine ==
    <<Prefix, "{\"type\": \"node_complete\", \"agent_name\": \"financial\", \"result\": \"A\"}">>
ToolUseLine ==
    <<Prefix, "{\"type\": \"tool_use\", \"tool_name\": \"target___calculator\", \"tool_use_id\": \"t1\", \"tool_input\": \"1+1\"}">>
ToolResultLine ==
    <<Prefix, "{\"type\": \"tool_result\", \"tool_use_id\": \"t1\", \"content\": [{\"text\": \"2\"}]}">>
UnknownTypeLine == <<Prefix, "{\"type\": \"metrics\", \"data\": \"t\"}">>
NoTypeLine == <<Prefix, "{\"data\": \"t\"}">>

Lines == {EmptyLine, NoPrefixLine, BadJsonLine, NonObjectLine, BadUtf8Line,
          TextChunkLine, ErrorLine, CompleteLine, CompleteDictLine}

\* Lines with the results an agent can report: a text, an empty text, none.
InputLines == {TextChunkLine, CompleteLine, CompleteEmptyLine,
               CompleteNoResultLine}

\* The lines of the streams when the process serves several requests.
RequestLines == {CompleteLine}

\* line.decode("utf-8") raises UnicodeDecodeError on bytes that are not UTF-8.
DecodeRaises(line) == \E i \in 1..Len(line) : line[i] = BadBytes

\* line.decode("utf-8").startswith("data: ")
StartsWithData(line) == Len(line) > 0 /\ line[1] = Prefix

\* line.decode("utf-8")[6:]
Body(line) == IF Len(line) > 1 THEN line[2] ELSE ""

\* json.loads: the decoded value, or JSONDecodeError.
JSONDecodeError == [k |-> "JSONDecodeError"]
JsonLoads(text) ==
    CASE text = "5" -> [k |-> "int", v |-> 5]
      [] text = "{\"type\": \"text_chunk\", \"data\": \"t\"}" ->
            [k |-> "dict", type |-> "text_chunk", data |-> "t"]
      [] text = "{\"type\": \"error\", \"error\": \"boom\"}" ->
            [k |-> "dict", type |-> "error", error |-> "boom"]
      [] text = "{\"type\": \"streaming_complete\", \"result\": \"A\"}" ->
            [k |-> "dict", type |-> "streaming_complete", result |-> Str("A")]
      [] text = "{\"type\": \"streaming_complete\", \"result\": {\"a\": 1}}" ->
            [k |-> "dict", type |-> "streaming_complete", result |-> Dict("R")]
      [] text = "{\"type\": \"streaming_complete\", \"result\": \"\"}" ->
            [k |-> "dict", type |-> "streaming_complete", result |-> Str("")]
      [] text = "{\"type\": \"streaming_complete\"}" ->
            [k |-> "dict", type |-> "streaming_complete"]
      [] text = "{\"type\": \"node_start\", \"agent_name\": \"financial\"}" ->
            [k |-> "dict", type |-> "node_start", agent_name |-> "financial"]
      [] text = "{\"type\": \"node_start\", \"agent_name\": \"portfolio\"}" ->
            [k |-> "dict", type |-> "node_start", agent_name |-> "portfolio"]
      [] text = "{\"type\": \"node_complete\", \"agent_name\": \"financial\", \"result\": \"A\"}" ->
            [k |-> "dict", type |-> "node_complete", agent_name |-> "financial",
             result |-> Str("A")]
      [] text = "{\"type\": \"tool_use\", \"tool_name\": \"target___calculator\", \"tool_use_id\": \"t1\", \"tool_input\": \"1+1\"}" ->
            [k |-> "dict", type |-> "tool_use",
             tool_name |-> <<"target", "calculator">>, tool_use_id |-> "t1",
             tool_input |-> "1+1"]
      [] text = "{\"type\": \"tool_result\", \"tool_use_id\": \"t1\", \"content\": [{\"text\": \"2\"}]}" ->
            [k |-> "dict", type |-> "tool_result", tool_use_id |-> "t1",
             content |-> <<"2">>]
      [] text = "{\"type\": \"metrics\", \"data\": \"t\"}" ->
            [k |-> "dict", type |-> "metrics", data |-> "t"]
      [] text = "{\"data\": \"t\"}" -> [k |-> "dict", data |-> "t"]
      [] OTHER -> JSONDecodeError

IsDict(v) == v.k = "dict"

\* dict.get(key): None when the key is missing.
Get(d, key) == IF key \in DOMAIN d THEN d[key] ELSE None

IsStreamingComplete(v) ==
    IsDict(v) /\ "type" \in DOMAIN v /\ v.type = "streaming_complete"

----------------------------------------------------------------------------
(* AgentClient.call_agent_with_streaming: the body of the loop over lines *)

NoException == "NoException"

\* Mutant of LoopBody: the streaming_complete record is consumed, not
\* passed to writer.
LoopBodyKeepsComplete(line, fr) ==
    IF line = <<>>
    THEN [written |-> <<>>, final_result |-> fr, raises |-> NoException]
    ELSE IF DecodeRaises(line)
    THEN [written |-> <<>>, final_result |-> fr, raises |-> "UnicodeDecodeError"]
    ELSE IF ~StartsWithData(line)
    THEN [written |-> <<>>, final_result |-> fr, raises |-> NoException]
    ELSE LET event_data == JsonLoads(Body(line)) IN
         IF event_data = JSONDecodeError
         THEN [written |-> <<>>, final_result |-> fr, raises |-> NoException]
         ELSE IF ~IsDict(event_data)
         THEN [written |-> <<event_data>>, final_result |-> fr,
               raises |-> "AttributeError"]
         ELSE IF IsStreamingComplete(event_data)
         THEN [written |-> <<>>,
               final_result |-> Get(event_data, "result"),
               raises |-> NoException]
         ELSE [written |-> <<event_data>>, final_result |-> fr,
               raises |-> NoException]

\* Mutant of LoopBody: JSONDecodeError is not caught.
LoopBodyBadJsonRaises(line, fr) ==
    IF line = <<>>
    THEN [written |-> <<>>, final_result |-> fr, raises |-> NoException]
    ELSE IF DecodeRaises(line)
    THEN [written |-> <<>>, final_result |-> fr, raises |-> "UnicodeDecodeError"]
    ELSE IF ~StartsWithData(line)
    THEN [written |-> <<>>, final_result |-> fr, raises |-> NoException]
    ELSE LET event_data == JsonLoads(Body(line)) IN
         IF event_data = JSONDecodeError
         THEN [written |-> <<>>, final_result |-> fr, raises |-> "JSONDecodeError"]
         ELSE IF ~IsDict(event_data)
         THEN [written |-> <<event_data>>, final_result |-> fr,
               raises |-> "AttributeError"]
         ELSE IF IsStreamingComplete(event_data)
         THEN [written |-> <<event_data>>,
               final_result |-> Get(event_data, "result"),
               raises |-> NoException]
         ELSE [written |-> <<event_data>>, final_result |-> fr,
               raises |-> NoException]

\* Mutant of LoopBody: the result of the first streaming_complete is kept.
LoopBodyKeepsFirstResult(line, fr) ==
    IF line = <<>>
    THEN [written |-> <<>>, final_result |-> fr, raises |-> NoException]
    ELSE IF DecodeRaises(line)
    THEN [written |-> <<>>, final_result |-> fr, raises |-> "UnicodeDecodeError"]
    ELSE IF ~StartsWithData(line)
    THEN [written |-> <<>>, final_result |-> fr, raises |-> NoException]
    ELSE LET event_data == JsonLoads(Body(line)) IN
         IF event_data = JSONDecodeError
         THEN [written |-> <<>>, final_result |-> fr, raises |-> NoException]
         ELSE IF ~IsDict(event_data)
         THEN [written |-> <<event_data>>, final_result |-> fr,
               raises |-> "AttributeError"]
         ELSE IF IsStreamingComplete(event_data)
         THEN [written |-> <<event_data>>,
               final_result |-> IF fr = None THEN Get(event_data, "result")
                                ELSE fr,
               raises |-> NoException]
         ELSE [written |-> <<event_data>>, final_result |-> fr,
               raises |-> NoException]

\* One iteration for `line` with the final result `fr` accumulated so far:
\* the chunks passed to writer, the new final result and the exception the
\* iteration raises, if any.
LoopBody(line, fr) ==
    IF line = <<>>
    THEN [written |-> <<>>, final_result |-> fr, raises |-> NoException]
    ELSE IF DecodeRaises(line)
    THEN [written |-> <<>>, final_result |-> fr, raises |-> "UnicodeDecodeError"]
    ELSE IF ~StartsWithData(line)
    THEN [written |-> <<>>, final_result |-> fr, raises |-> NoException]
    ELSE LET event_data == JsonLoads(Body(line)) IN
         IF event_data = JSONDecodeError
         THEN [written |-> <<>>, final_result |-> fr, raises |-> NoException]
         ELSE IF ~IsDict(event_data)
         THEN [written |-> <<event_data>>, final_result |-> fr,
               raises |-> "AttributeError"]
         ELSE IF IsStreamingComplete(event_data)
         THEN [written |-> <<event_data>>,
               final_result |-> Get(event_data, "result"),
               raises |-> NoException]
         ELSE [written |-> <<event_data>>, final_result |-> fr,
               raises |-> NoException]

----------------------------------------------------------------------------
(* AgentClient.save_to_memory *)

\* self.memory_id, resolved once by _load_memory_id.
memory_id == Str("mem-1")

\* Mutant of CreateEventCall: a dict input is recorded by str(), as any
\* other input is.
CreateEventCallStrInput(session_id, agent_type, user_input, agent_result) ==
    [memory_id |-> memory_id,
     actor_id |-> "fund_user",
     session_id |-> session_id,
     messages |->
       << [text |-> <<agent_type, " analysis request: ", PyStr(user_input)>>,
           role |-> "USER"],
          [text |-> <<agent_type, " result: ", PyStr(agent_result)>>,
           role |-> "ASSISTANT"] >>]

\* The create_event call save_to_memory makes for a stage.
CreateEventCall(session_id, agent_type, user_input, agent_result) ==
    LET input_text == IF user_input.k = "dict" THEN JsonDumps(user_input)
                      ELSE PyStr(user_input)
    IN [memory_id |-> memory_id,
        actor_id |-> "fund_user",
        session_id |-> session_id,
        messages |->
          << [text |-> <<agent_type, " analysis request: ", input_text>>,
              role |-> "USER"],
             [text |-> <<agent_type, " result: ", PyStr(agent_result)>>,
              role |-> "ASSISTANT"] >>]

\* Mutant of SkipsMemory: only a result of None is skipped.
SkipsMemoryOnlyNone(agent_result) ==
    ~Truthy(memory_id) \/ agent_result.k = "None"

\* The early return of save_to_memory.
SkipsMemory(agent_result) == ~Truthy(memory_id) \/ ~Truthy(agent_result)

----------------------------------------------------------------------------
(* FundManager.run_consultation and fund_manager_entrypoint *)

\* The payloads fund_manager_entrypoint is called with: input_data is the
\* user request, session_id is optional (payload.get gives None without it).
Payloads == {[input_data |-> Dict("U"), session_id |-> None]}

\* Payloads without a session_id, with one, with an empty one.
InputPayloads ==
    {[input_data |-> Dict("U"), session_id |-> None],
     [input_data |-> Dict("U"), session_id |-> Str("s-1")],
     [input_data |-> Dict("U"), session_id |-> Str("")]}

\* The payloads when the process serves several requests.
RequestPayloads ==
    {[input_data |-> Dict("U"), session_id |-> None],
     [input_data |-> Dict("U"), session_id |-> Str("s-1")]}

\* The wall clock: `now` counts ticks of 1/TicksPerSecond s of local time
\* since 2026-01-01 00:00:00 (the model stays within that January).
Seconds(t) == t \div TicksPerSecond

\* A number printed with two digits (%d, %H, %M, %S).
Pad2(n) == IF n < 10 THEN "0" \o ToString(n) ELSE ToString(n)

\* Mutant of Strftime: the format stops at the hour ('%Y%m%d_%H').
StrftimeHours(t) ==
    LET s == Seconds(t)
    IN "202601" \o Pad2(1 + s \div 86400) \o "_" \o Pad2((s \div 3600) % 24)

\* datetime.now().strftime('%Y%m%d_%H%M%S') for the clock reading t
Strftime(t) ==
    LET s == Seconds(t)
    IN "202601" \o Pad2(1 + s \div 86400) \o "_"
         \o Pad2((s \div 3600) % 24) \o Pad2((s \div 60) % 60) \o Pad2(s % 60)

GeneratedSessionId(t) == Str("session_" \o Strftime(t))

InitialState(user_input, session_id) ==
    [user_input |-> user_input,
     session_id |-> session_id,
     financial_analysis |-> Str(""),
     portfolio_recommendation |-> Str(""),
     risk_analysis |-> Str("")]

\* self.arns, resolved once by _load_agent_arns.
arns == [n \in NodeSet |-> "arn:" \o n]

\* AgentClient(): the object built when the module is imported.
AgentClient == [arns |-> arns, memory_id |-> memory_id]

\* FundManager(): the object holding the compiled graph.
FundManager == [k |-> "FundManager", graph |-> [n \in NodeSet |-> Edge(n)]]

\* The two requests the process serves concurrently.
Consultations == {"c1", "c2"}

\* The locals of a request whose entrypoint has not run yet.
TaskStart ==
    [pc |-> "entrypoint", node |-> EntryPoint, payload |-> None,
     state |-> InitialState(None, None), final_result |-> None,
     result |-> None, events |-> <<>>, invocations |-> <<>>,
     linesLeft |-> MaxTaskLines]

\* extract_json_from_text has not returned yet.
NotCalled == [k |-> "NotCalled"]

\* The module after import: agent_client = AgentClient(), advisor = None.
\* The locals of invoke_fund_manager before its loop: no current agent,
\* empty dicts.  A dict is a function on its keys.
NotReturned == [status |-> "none"]
EmptyDict == [key \in {} |-> None]
ConsumerStart ==
    [pc |-> "invoke",
     current_agent |-> None,
     agent_containers |-> {},
     agent_thinking_containers |-> {},
     current_thinking |-> EmptyDict,
     current_text_placeholders |-> {},
     tool_id_to_name |-> EmptyDict,
     tool_id_to_input |-> EmptyDict,
     displayed |-> <<>>,
     lines |-> <<>>,
     returned |-> NotReturned]

\* An agent adapter before it is called.
AdapterStart ==
    [pc |-> "entrypoint", agent |-> "none", model_events |-> <<>>,
     yielded |-> <<>>, exception |-> NoException]

InitModule ==
    /\ consumer = ConsumerStart
    /\ adapter = AdapterStart
    /\ advisor = None
    /\ constructions = 0
    /\ agent_client = AgentClient
    /\ tasks = [c \in Consultations |-> TaskStart]

\* The fund manager process before its first request.
InitProcess ==
    /\ InitModule
    /\ pc = "entrypoint"
    /\ node = EntryPoint
    /\ state = InitialState(None, None)
    /\ final_result = None
    /\ result = None
    /\ events = <<>>
    /\ invocations = <<>>
    /\ received = [n \in NodeSet |-> <<>>]
    /\ memory = <<>>
    /\ memory_calls = <<>>
    /\ exception = NoException
    /\ linesLeft = MaxLines
    /\ now = ClockStart
    /\ sessions = <<>>

Init ==
    /\ InitProcess
    /\ text_content = Str(<<>>)
    /\ extracted = NotCalled

\* fund_manager_entrypoint(payload): run_consultation(user_input, session_id)
\* up to the start of graph.stream.
run_consultation(user_input, session_id) ==
    /\ pc = "entrypoint"
    /\ state' = InitialState(user_input,
                    IF ~Truthy(session_id) THEN GeneratedSessionId(now)
                    ELSE session_id)
    /\ node' = EntryPoint
    /\ pc' = "node_start"
    /\ UNCHANGED <<final_result, result, events, invocations, received,
                   memory, memory_calls, exception, linesLeft>>

\* if advisor is None: advisor = FundManager(); payload.get("input_data"),
\* payload.get("session_id"); `sessions` keeps what the consultation was
\* started with.
fund_manager_entrypoint(payload) ==
    /\ advisor' = IF advisor = None THEN FundManager ELSE advisor
    /\ constructions' = IF advisor = None THEN constructions + 1
                        ELSE constructions
    /\ run_consultation(payload.input_data, payload.session_id)
    /\ sessions' = Append(sessions, [payload |-> payload, started |-> now,
                                     session_id |-> state'.session_id,
                                     memory |-> memory])
    /\ UNCHANGED <<now, agent_client, tasks, text_content, extracted,
                   consumer, adapter>>

\* The time between the end of a consultation and the next request, in
\* ticks: none, less than a second, a second, more than a second.
Delays == {0, 1, TicksPerSecond, TicksPerSecond + 1}

\* The runtime calls the entrypoint again when the previous consultation is
\* over (exhausted or raised), d ticks later: the locals of the previous
\* call are gone, the Memory Service keeps its events.
next_request(d) ==
    /\ pc \in {"done", "raised"}
    /\ Len(sessions) < MaxRequests
    /\ now' = now + d
    /\ pc' = "entrypoint"
    /\ node' = EntryPoint
    /\ state' = InitialState(None, None)
    /\ final_result' = None
    /\ result' = None
    /\ events' = <<>>
    /\ invocations' = <<>>
    /\ received' = [n \in NodeSet |-> <<>>]
    /\ memory_calls' = <<>>
    /\ exception' = NoException
    /\ UNCHANGED <<memory, linesLeft, sessions, advisor, constructions,
                   agent_client, tasks, text_content, extracted,
                   consumer, adapter>>

----------------------------------------------------------------------------
(* The nodes: financial_node, portfolio_node, risk_node *)

\* writer(chunk): the chunk is yielded to the caller (stream_mode="custom").
Writer(evs, chunk) == Append(evs, chunk)

\* Mutant of NodeStartEvent: the marker carries an id generated when the
\* node starts.
NodeStartEventFreshId(n, st) ==
    [k |-> "dict", type |-> "node_start", agent_name |-> n,
     session_id |-> GeneratedSessionId(now)]

NodeStartEvent(n, st) ==
    [k |-> "dict", type |-> "node_start", agent_name |-> n,
     session_id |-> st.session_id]

\* Mutant of NodeCompleteEvent: the marker carries another type.
NodeCompleteEventOtherType(n, st, res) ==
    [k |-> "dict", type |-> "node_end", agent_name |-> n,
     session_id |-> st.session_id, result |-> res]

NodeCompleteEvent(n, st, res) ==
    [k |-> "dict", type |-> "node_complete", agent_name |-> n,
     session_id |-> st.session_id, result |-> res]

\* writer({"type": "node_start", ...})
node_start ==
    /\ pc = "node_start"
    /\ events' = Writer(events, NodeStartEvent(node, state))
    /\ pc' = "invoke"
    /\ UNCHANGED <<node, state, final_result, result, invocations, received,
                   memory, memory_calls, exception, linesLeft>>
    /\ UNCHANGED processVars

\* The request of invoke_agent_runtime.
Invocation(agent_type, data) ==
    [agent_type |-> agent_type, qualifier |-> "DEFAULT",
     payload |-> [input_data |-> data]]

\* Mutant of invoke_agent_runtime: the agent of the next stage is invoked
\* along with this one.
invoke_agent_runtime_prefetch ==
    /\ pc = "invoke"
    /\ invocations' =
          IF Edge(node) = END
          THEN Append(invocations, Invocation(node, NodeInput(node, state)))
          ELSE invocations \o <<Invocation(node, NodeInput(node, state)),
                                 Invocation(Edge(node), None)>>
    /\ final_result' = None
    /\ pc' = "iter_lines"
    /\ UNCHANGED <<node, state, result, events, received, memory,
                   memory_calls, exception, linesLeft>>
    /\ UNCHANGED processVars

\* call_agent_with_streaming: invoke_agent_runtime returns a response.
invoke_agent_runtime ==
    /\ pc = "invoke"
    /\ invocations' = Append(invocations, Invocation(node, NodeInput(node, state)))
    /\ final_result' = None
    /\ pc' = "iter_lines"
    /\ UNCHANGED <<node, state, result, events, received, memory,
                   memory_calls, exception, linesLeft>>
    /\ UNCHANGED processVars

\* call_agent_with_streaming: invoke_agent_runtime raises (transport error);
\* nothing catches it up to the caller of fund_manager_entrypoint.
invoke_agent_runtime_raises ==
    /\ pc = "invoke"
    /\ invocations' = Append(invocations, Invocation(node, NodeInput(node, state)))
    /\ exception' = "ClientError"
    /\ pc' = "raised"
    /\ UNCHANGED <<node, state, final_result, result, events, received,
                   memory, memory_calls, linesLeft>>
    /\ UNCHANGED processVars

\* call_agent_with_streaming: one iteration of the loop over iter_lines.
iter_lines(line) ==
    /\ pc = "iter_lines"
    /\ linesLeft > 0
    /\ linesLeft' = linesLeft - 1
    /\ received' = [received EXCEPT ![node] = Append(@, line)]
    /\ LET r == LoopBody(line, final_result) IN
         /\ events' = events \o r.written
         /\ final_result' = r.final_result
         /\ exception' = r.raises
         /\ pc' = IF r.raises = NoException THEN "iter_lines" ELSE "raised"
    /\ UNCHANGED <<node, state, result, invocations, memory, memory_calls>>
    /\ UNCHANGED processVars

\* call_agent_with_streaming: reading the stream raises (connection lost).
iter_lines_raises ==
    /\ pc = "iter_lines"
    /\ exception' = "ReadTimeoutError"
    /\ pc' = "raised"
    /\ UNCHANGED <<node, state, final_result, result, events, invocations,
                   received, memory, memory_calls, linesLeft>>
    /\ UNCHANGED processVars

\* Mutant of return_final_result: the node saves to memory before it
\* writes node_complete.
return_final_result_saves_first ==
    /\ pc = "iter_lines"
    /\ result' = final_result
    /\ pc' = "save_to_memory"
    /\ UNCHANGED <<node, state, final_result, events, invocations, received,
                   memory, memory_calls, exception, linesLeft>>
    /\ UNCHANGED processVars

\* call_agent_with_streaming: the stream ends; return final_result.
\* Mutant of return_final_result: the loop does not leave at the end of the
\* stream.
return_final_result_blocks ==
    /\ pc = "iter_lines"
    /\ pc' = "iter_lines"
    /\ UNCHANGED <<node, state, final_result, result, events, invocations,
                   received, memory, memory_calls, exception, linesLeft>>
    /\ UNCHANGED processVars

return_final_result ==
    /\ pc = "iter_lines"
    /\ result' = final_result
    /\ pc' = "node_complete"
    /\ UNCHANGED <<node, state, final_result, events, invocations, received,
                   memory, memory_calls, exception, linesLeft>>
    /\ UNCHANGED processVars

\* writer({"type": "node_complete", ..., "result": result})
node_complete ==
    /\ pc = "node_complete"
    /\ events' = Writer(events, NodeCompleteEvent(node, state, result))
    /\ pc' = "save_to_memory"
    /\ UNCHANGED <<node, state, final_result, result, invocations, received,
                   memory, memory_calls, exception, linesLeft>>
    /\ UNCHANGED processVars

\* Mutant of save_to_memory: an event the Memory Service already holds is
\* not written again.
save_to_memory_dedup ==
    /\ pc = "save_to_memory"
    /\ LET call == CreateEventCall(state.session_id, node,
                                   NodeInput(node, state), result)
       IN IF SkipsMemory(result) \/ \E i \in 1..Len(memory) : memory[i] = call
          THEN UNCHANGED <<memory, memory_calls>>
          ELSE /\ memory' = Append(memory, call)
               /\ memory_calls' = Append(memory_calls,
                                         [call |-> call, node |-> node, ok |-> TRUE])
    /\ pc' = "store"
    /\ UNCHANGED <<node, state, final_result, result, events, invocations,
                   received, exception, linesLeft>>
    /\ UNCHANGED processVars

\* save_to_memory: create_event succeeds, or the early return is taken.
save_to_memory ==
    /\ pc = "save_to_memory"
    /\ IF SkipsMemory(result)
       THEN UNCHANGED <<memory, memory_calls>>
       ELSE LET call == CreateEventCall(state.session_id, node,
                                        NodeInput(node, state), result)
            IN /\ memory' = Append(memory, call)
               /\ memory_calls' = Append(memory_calls,
                                         [call |-> call, node |-> node, ok |-> TRUE])
    /\ pc' = "store"
    /\ UNCHANGED <<node, state, final_result, result, events, invocations,
                   received, exception, linesLeft>>
    /\ UNCHANGED processVars

\* Mutant of save_to_memory_fails: the exception of create_event propagates.
save_to_memory_fails_propagates ==
    /\ pc = "save_to_memory"
    /\ ~SkipsMemory(result)
    /\ LET call == CreateEventCall(state.session_id, node,
                                   NodeInput(node, state), result)
       IN memory_calls' = Append(memory_calls,
                                 [call |-> call, node |-> node, ok |-> FALSE])
    /\ exception' = "Exception"
    /\ pc' = "raised"
    /\ UNCHANGED <<node, state, final_result, result, events, invocations,
                   received, memory, linesLeft>>
    /\ UNCHANGED processVars

\* save_to_memory: create_event raises; `except Exception` prints and returns.
save_to_memory_fails ==
    /\ pc = "save_to_memory"
    /\ ~SkipsMemory(result)
    /\ LET call == CreateEventCall(state.session_id, node,
                                   NodeInput(node, state), result)
       IN memory_calls' = Append(memory_calls,
                                 [call |-> call, node |-> node, ok |-> FALSE])
    /\ pc' = "store"
    /\ UNCHANGED <<node, state, final_result, result, events, invocations,
                   received, memory, exception, linesLeft>>
    /\ UNCHANGED processVars

\* state[<field>] = result; return state; the graph follows the node's edge.
store_result ==
    /\ pc = "store"
    /\ state' = [state EXCEPT ![StateField(node)] = result]
    /\ IF Edge(node) = END
       THEN pc' = "done" /\ node' = node
       ELSE pc' = "node_start" /\ node' = Edge(node)
    /\ UNCHANGED <<final_result, result, events, invocations, received,
                   memory, memory_calls, exception, linesLeft>>
    /\ UNCHANGED processVars

Next ==
    \/ \E payload \in Payloads : fund_manager_entrypoint(payload)
    \/ node_start
    \/ invoke_agent_runtime
    \/ invoke_agent_runtime_raises
    \/ \E line \in Lines : iter_lines(line)
    \/ iter_lines_raises
    \/ return_final_result
    \/ node_complete
    \/ save_to_memory
    \/ save_to_memory_fails
    \/ store_result

Spec == Init /\ [][Next]_vars

\* One consultation, over the payloads and the results InputPayloads and
\* InputLines give.
NextInputs ==
    \/ \E payload \in InputPayloads : fund_manager_entrypoint(payload)
    \/ node_start
    \/ invoke_agent_runtime
    \/ invoke_agent_runtime_raises
    \/ \E line \in InputLines : iter_lines(line)
    \/ iter_lines_raises
    \/ return_final_result
    \/ node_complete
    \/ save_to_memory
    \/ save_to_memory_fails
    \/ store_result

SpecInputs == Init /\ [][NextInputs]_vars

\* The same consultation when every remote stream is finite and every call
\* comes back: graph.stream runs the nodes synchronously, one statement
\* after the other, so a step that can run does run; invoke_agent_runtime
\* returns or raises, the loop over iter_lines reaches the end of the
\* stream or raises, and create_event returns or raises.
FairSpecInputs ==
    /\ SpecInputs
    /\ WF_vars(node_start)
    /\ WF_vars(invoke_agent_runtime)
    /\ WF_vars(return_final_result)
    /\ WF_vars(node_complete)
    /\ WF_vars(save_to_memory)
    /\ WF_vars(store_result)

\* The process serves up to MaxRequests requests one after the other.
InitRequests ==
    /\ InitModule
    /\ pc = "entrypoint"
    /\ node = EntryPoint
    /\ state = InitialState(None, None)
    /\ final_result = None
    /\ result = None
    /\ events = <<>>
    /\ invocations = <<>>
    /\ received = [n \in NodeSet |-> <<>>]
    /\ memory = <<>>
    /\ memory_calls = <<>>
    /\ exception = NoException
    /\ linesLeft = MaxRequestLines
    /\ now = ClockStart
    /\ sessions = <<>>
    /\ text_content = Str(<<>>)
    /\ extracted = NotCalled

NextRequests ==
    \/ \E payload \in RequestPayloads : fund_manager_entrypoint(payload)
    \/ \E d \in Delays : next_request(d)
    \/ node_start
    \/ invoke_agent_runtime
    \/ invoke_agent_runtime_raises
    \/ \E line \in RequestLines : iter_lines(line)
    \/ iter_lines_raises
    \/ return_final_result
    \/ node_complete
    \/ save_to_memory
    \/ save_to_memory_fails
    \/ store_result

SpecRequests == InitRequests /\ [][NextRequests]_vars

----------------------------------------------------------------------------
(* Two requests served concurrently by one process.  The entrypoint is an  *)
(* async generator: its statements up to the start of the graph have no    *)
(* await or yield between them and are one step; after that every writer   *)
(* call, remote call and line read of a request is a step, and the steps   *)
(* of the two requests interleave in any order.  tasks[c] holds the locals *)
(* of request c; advisor, agent_client and the Memory Service are shared.  *)

\* The payloads of the two requests: different session ids and inputs.
TaskPayloads ==
    [c \in Consultations |->
        IF c = "c1" THEN [input_data |-> Dict("U"), session_id |-> Str("s-1")]
        ELSE [input_data |-> Str("Q"), session_id |-> Str("s-2")]]

\* The lines the agents deliver to each request.
TaskLines ==
    [c \in Consultations |->
        IF c = "c1" THEN {TextChunkLine, CompleteLine}
        ELSE {TextChunkLine, CompleteDictLine}]

\* The frame of the steps of the concurrent requests.
sequentialVars == <<consultationVars, now, sessions, text_content, extracted,
                    consumer, adapter>>

\* Mutant of task_entrypoint: a suspension point between the test of
\* advisor and the assignment.
task_entrypoint_suspends(c) ==
    LET payload == TaskPayloads[c] IN
    \/ /\ tasks[c].pc = "entrypoint"
       /\ advisor = None
       /\ tasks' = [tasks EXCEPT ![c].pc = "constructing"]
       /\ UNCHANGED <<advisor, constructions, memory, agent_client,
                      sequentialVars>>
    \/ /\ \/ tasks[c].pc = "constructing"
          \/ tasks[c].pc = "entrypoint" /\ advisor # None
       /\ advisor' = IF tasks[c].pc = "constructing" THEN FundManager
                     ELSE advisor
       /\ constructions' = IF tasks[c].pc = "constructing"
                           THEN constructions + 1 ELSE constructions
       /\ tasks' = [tasks EXCEPT ![c] =
              [@ EXCEPT !.pc = "node_start",
                        !.payload = payload,
                        !.state = InitialState(payload.input_data,
                                      IF ~Truthy(payload.session_id)
                                      THEN GeneratedSessionId(now)
                                      ELSE payload.session_id)]]
       /\ UNCHANGED <<memory, agent_client, sequentialVars>>

\* fund_manager_entrypoint(payload) of request c up to the start of the
\* graph: if advisor is None: advisor = FundManager(); run_consultation.
task_entrypoint(c) ==
    LET payload == TaskPayloads[c] IN
    /\ tasks[c].pc = "entrypoint"
    /\ advisor' = IF advisor = None THEN FundManager ELSE advisor
    /\ constructions' = IF advisor = None THEN constructions + 1
                        ELSE constructions
    /\ tasks' = [tasks EXCEPT ![c] =
           [@ EXCEPT !.pc = "node_start",
                     !.payload = payload,
                     !.state = InitialState(payload.input_data,
                                   IF ~Truthy(payload.session_id)
                                   THEN GeneratedSessionId(now)
                                   ELSE payload.session_id)]]
    /\ UNCHANGED <<memory, agent_client, sequentialVars>>

\* writer({"type": "node_start", ...}) of request c
task_node_start(c) ==
    /\ tasks[c].pc = "node_start"
    /\ tasks' = [tasks EXCEPT ![c] =
           [@ EXCEPT !.pc = "invoke",
                     !.events = Writer(@, NodeStartEvent(tasks[c].node,
                                                         tasks[c].state))]]
    /\ UNCHANGED <<advisor, constructions, memory, agent_client, sequentialVars>>

\* call_agent_with_streaming of request c: invoke_agent_runtime returns.
task_invoke_agent_runtime(c) ==
    /\ tasks[c].pc = "invoke"
    /\ tasks' = [tasks EXCEPT ![c] =
           [@ EXCEPT !.pc = "iter_lines",
                     !.final_result = None,
                     !.invocations =
                         Append(@, Invocation(tasks[c].node,
                                      NodeInput(tasks[c].node, tasks[c].state)))]]
    /\ UNCHANGED <<advisor, constructions, memory, agent_client, sequentialVars>>

\* call_agent_with_streaming of request c: invoke_agent_runtime raises.
task_invoke_agent_runtime_raises(c) ==
    /\ tasks[c].pc = "invoke"
    /\ tasks' = [tasks EXCEPT ![c] =
           [@ EXCEPT !.pc = "raised",
                     !.invocations =
                         Append(@, Invocation(tasks[c].node,
                                      NodeInput(tasks[c].node, tasks[c].state)))]]
    /\ UNCHANGED <<advisor, constructions, memory, agent_client, sequentialVars>>

\* call_agent_with_streaming of request c: one iteration of the loop.
task_iter_lines(c, line) ==
    /\ tasks[c].pc = "iter_lines"
    /\ tasks[c].linesLeft > 0
    /\ LET r == LoopBody(line, tasks[c].final_result) IN
       tasks' = [tasks EXCEPT ![c] =
           [@ EXCEPT !.linesLeft = @ - 1,
                     !.events = @ \o r.written,
                     !.final_result = r.final_result,
                     !.pc = IF r.raises = NoException THEN "iter_lines"
                            ELSE "raised"]]
    /\ UNCHANGED <<advisor, constructions, memory, agent_client, sequentialVars>>

\* Mutant of ReturnedBy: final_result is kept where the other request's
\* call writes it too.
ReturnedByShared(c) ==
    tasks[CHOOSE d \in Consultations : d # c].final_result

\* return final_result: the local of request c's call.
ReturnedBy(c) == tasks[c].final_result

\* call_agent_with_streaming of request c: the stream ends.
task_return_final_result(c) ==
    /\ tasks[c].pc = "iter_lines"
    /\ tasks' = [tasks EXCEPT ![c] =
           [@ EXCEPT !.pc = "node_complete", !.result = ReturnedBy(c)]]
    /\ UNCHANGED <<advisor, constructions, memory, agent_client, sequentialVars>>

\* writer({"type": "node_complete", ...}) of request c
task_node_complete(c) ==
    /\ tasks[c].pc = "node_complete"
    /\ tasks' = [tasks EXCEPT ![c] =
           [@ EXCEPT !.pc = "save_to_memory",
                     !.events = Writer(@, NodeCompleteEvent(tasks[c].node,
                                              tasks[c].state, tasks[c].result))]]
    /\ UNCHANGED <<advisor, constructions, memory, agent_client, sequentialVars>>

\* save_to_memory of request c: the create_event call on the shared
\* memory client, or the early return.
task_save_to_memory(c) ==
    /\ tasks[c].pc = "save_to_memory"
    /\ memory' =
          IF SkipsMemory(tasks[c].result) THEN memory
          ELSE Append(memory,
                   CreateEventCall(tasks[c].state.session_id, tasks[c].node,
                       NodeInput(tasks[c].node, tasks[c].state), tasks[c].result))
    /\ tasks' = [tasks EXCEPT ![c].pc = "store"]
    /\ UNCHANGED <<advisor, constructions, agent_client, sequentialVars>>

\* state[<field>] = result of request c; the graph follows the edge.
task_store_result(c) ==
    /\ tasks[c].pc = "store"
    /\ tasks' = [tasks EXCEPT ![c] =
           [@ EXCEPT !.state = [@ EXCEPT ![StateField(tasks[c].node)] =
                                    tasks[c].result],
                     !.pc = IF Edge(tasks[c].node) = END THEN "done"
                            ELSE "node_start",
                     !.node = IF Edge(tasks[c].node) = END THEN @
                              ELSE Edge(tasks[c].node)]]
    /\ UNCHANGED <<advisor, constructions, memory, agent_client, sequentialVars>>

NextConcurrent ==
    \/ \E c \in Consultations : task_entrypoint(c)
    \/ \E c \in Consultations : task_node_start(c)
    \/ \E c \in Consultations : task_invoke_agent_runtime(c)
    \/ \E c \in Consultations : task_invoke_agent_runtime_raises(c)
    \/ \E c \in Consultations : \E line \in TaskLines[c] : task_iter_lines(c, line)
    \/ \E c \in Consultations : task_return_final_result(c)
    \/ \E c \in Consultations : task_node_complete(c)
    \/ \E c \in Consultations : task_save_to_memory(c)
    \/ \E c \in Consultations : task_store_result(c)

SpecConcurrent == Init /\ [][NextConcurrent]_vars

----------------------------------------------------------------------------
(* extract_json_from_text (financial_analyst.py, portfolio_architect.py,   *)
(* risk_manager.py: the same function).  A text is Str(s) with s the       *)
(* sequence of its characters.                                             *)

\* The characters of the texts: the two braces and another character.
Chars == {"{", "}", "a"}

\* The texts of up to MaxLen characters.
Texts == UNION {[1..n -> Chars] : n \in 0..MaxLen}

\* The arguments the function is applied to: texts and values that are
\* not strings.
TextContents == {Str(t) : t \in Texts} \cup {None, Dict("R")}

\* str.find(ch): the lowest index (from 0) of ch, -1 when there is none.
Find(s, ch) ==
    IF \E i \in 1..Len(s) : s[i] = ch
    THEN (CHOOSE i \in 1..Len(s) :
            s[i] = ch /\ \A j \in 1..(i - 1) : s[j] # ch) - 1
    ELSE -1

\* str.rfind(ch): the highest index (from 0) of ch, -1 when there is none.
RFind(s, ch) ==
    IF \E i \in 1..Len(s) : s[i] = ch
    THEN (CHOOSE i \in 1..Len(s) :
            s[i] = ch /\ \A j \in (i + 1)..Len(s) : s[j] # ch) - 1
    ELSE -1

\* s[a:b] for 0 <= a <= b <= len(s)
Slice(s, a, b) == SubSeq(s, a + 1, b)

\* Mutant of ExtractJsonFromText: the end is the first '}' (find, not rfind).
ExtractJsonFromTextFirstClose(x) ==
    IF x.k # "str" THEN x
    ELSE LET start_idx == Find(x.v, "{")
             end_idx == Find(x.v, "}") + 1
         IN IF start_idx # -1 /\ end_idx > start_idx
            THEN Str(Slice(x.v, start_idx, end_idx))
            ELSE x

\* Mutant of ExtractJsonFromText: the end is rfind('}') without the + 1.
ExtractJsonFromTextOpenEnd(x) ==
    IF x.k # "str" THEN x
    ELSE LET start_idx == Find(x.v, "{")
             end_idx == RFind(x.v, "}")
         IN IF start_idx # -1 /\ end_idx > start_idx
            THEN Str(Slice(x.v, start_idx, end_idx))
            ELSE x

\* Mutant of ExtractJsonFromText: the end is not compared with the start.
ExtractJsonFromTextAnyOrder(x) ==
    IF x.k # "str" THEN x
    ELSE LET start_idx == Find(x.v, "{")
             end_idx == RFind(x.v, "}") + 1
         IN IF start_idx # -1 /\ end_idx # 0
            THEN Str(Slice(x.v, start_idx, end_idx))
            ELSE x

\* extract_json_from_text(text_content)
ExtractJsonFromText(x) ==
    IF x.k # "str" THEN x
    ELSE LET start_idx == Find(x.v, "{")
             end_idx == RFind(x.v, "}") + 1
         IN IF start_idx # -1 /\ end_idx > start_idx
            THEN Str(Slice(x.v, start_idx, end_idx))
            ELSE x

\* The frame of the steps that are not steps of the fund manager process.
fundManagerVars == <<consultationVars, memory, now, sessions, advisor,
                     constructions, agent_client, tasks, consumer, adapter>>

InitExtract ==
    /\ InitProcess
    /\ text_content \in TextContents
    /\ extracted = NotCalled

\* The function is called with text_content and returns.
extract_json_from_text ==
    /\ extracted = NotCalled
    /\ extracted' = ExtractJsonFromText(text_content)
    /\ UNCHANGED <<text_content, fundManagerVars>>

NextExtract == extract_json_from_text

SpecExtract == InitExtract /\ [][NextExtract]_vars

----------------------------------------------------------------------------
(* invoke_fund_manager of the web client (src/fund_manager/app.py): it     *)
(* reads the stream the fund manager serves, line by line, and dispatches  *)
(* on the type of each event.  consumer holds its locals; a dict is a      *)
(* function on its keys; displayed lists the calls that draw on the page.  *)

\* The lines the web client may read.
ConsumerLines ==
    {NodeStartFinancialLine, NodeStartPortfolioLine, NodeCompleteFinancialLine,
     TextChunkLine, ToolUseLine, ToolResultLine, ErrorLine, CompleteLine,
     UnknownTypeLine, NoTypeLine, BadJsonLine, NonObjectLine}

\* d[key] = val and del d[key].
DictSet(d, key, val) ==
    [x \in DOMAIN d \cup {key} |-> IF x = key THEN val ELSE d[x]]
DictDel(d, key) == [x \in DOMAIN d \ {key} |-> d[x]]

\* event_data.get("type"); no type is the text "None".
EventType(e) == IF "type" \in DOMAIN e THEN e.type ELSE "None"

\* event_data.get("agent_name")
AgentName(e) == IF "agent_name" \in DOMAIN e THEN Str(e.agent_name) ELSE None

\* event_data.get("tool_use_id", "")
ToolUseId(e) == IF "tool_use_id" \in DOMAIN e THEN e.tool_use_id ELSE ""

\* The tools whose result the client draws, per agent.
DisplayedTools ==
    {<<Str("financial"), "calculator">>,
     <<Str("portfolio"), "analyze_etf_performance">>,
     <<Str("portfolio"), "calculate_correlation">>,
     <<Str("risk"), "get_product_news">>,
     <<Str("risk"), "get_market_data">>,
     <<Str("risk"), "get_geopolitical_indicators">>}

Display(c, what, agent, text) ==
    Append(c.displayed, [what |-> what, agent |-> agent, text |-> text])

\* if event_type == "text_chunk"
OnTextChunk(c, e) ==
    LET chunk_data == IF "data" \in DOMAIN e THEN e.data ELSE "" IN
    IF Truthy(c.current_agent) /\ c.current_agent \in DOMAIN c.current_thinking
    THEN LET text == Append(c.current_thinking[c.current_agent], chunk_data)
             blank == \A i \in 1..Len(text) : text[i] = ""
         IN [c EXCEPT
               !.current_thinking = DictSet(@, c.current_agent, text),
               !.displayed =
                   IF ~blank /\ c.current_agent \in c.current_text_placeholders
                   THEN Display(c, "markdown", c.current_agent, text)
                   ELSE @]
    ELSE c

\* elif event_type == "tool_use"
OnToolUse(c, e) ==
    LET tool_name == IF "tool_name" \in DOMAIN e THEN e.tool_name ELSE <<"">>
        tool_input == IF "tool_input" \in DOMAIN e THEN e.tool_input ELSE ""
        actual_tool_name == tool_name[Len(tool_name)]
    IN [c EXCEPT
          !.tool_id_to_name = DictSet(@, ToolUseId(e), actual_tool_name),
          !.tool_id_to_input = DictSet(@, ToolUseId(e), tool_input)]

\* elif event_type == "tool_result"
OnToolResult(c, e) ==
    LET tool_use_id == ToolUseId(e)
        actual_tool_name == IF tool_use_id \in DOMAIN c.tool_id_to_name
                            THEN c.tool_id_to_name[tool_use_id] ELSE "unknown"
        tool_input == IF tool_use_id \in DOMAIN c.tool_id_to_input
                      THEN c.tool_id_to_input[tool_use_id] ELSE "unknown"
        tool_content == IF "content" \in DOMAIN e THEN e.content ELSE <<"{}">>
        drawn == IF /\ Len(tool_content) > 0
                    /\ c.current_agent \in c.agent_thinking_containers
                    /\ <<c.current_agent, actual_tool_name>> \in DisplayedTools
                 THEN Display(c, actual_tool_name, c.current_agent,
                              <<tool_input, tool_content[1]>>)
                 ELSE c.displayed
    IN IF Truthy(c.current_agent)
       THEN [c EXCEPT
               !.displayed = drawn,
               !.current_thinking = DictSet(@, c.current_agent, <<>>),
               !.tool_id_to_name = DictDel(@, tool_use_id),
               !.tool_id_to_input = DictDel(@, tool_use_id)]
       ELSE [c EXCEPT !.displayed = drawn]

\* elif event_type == "node_start"
OnNodeStart(c, e) ==
    LET agent_name == AgentName(e) IN
    [c EXCEPT
       !.current_agent = agent_name,
       !.agent_containers = @ \cup {agent_name},
       !.agent_thinking_containers = @ \cup {agent_name},
       !.current_thinking = DictSet(@, agent_name, <<>>),
       !.current_text_placeholders = @ \cup {agent_name},
       !.displayed = Display(c, "expander", agent_name, <<>>)]

\* elif event_type == "node_complete"
OnNodeComplete(c, e) ==
    LET agent_name == AgentName(e)
        node_result == Get(e, "result")
    IN IF /\ agent_name \in c.agent_containers
          /\ Truthy(node_result)
          /\ agent_name \in {Str("financial"), Str("portfolio"), Str("risk")}
       THEN [c EXCEPT !.displayed = Display(c, "result", agent_name,
                                            <<node_result.v>>)]
       ELSE c

\* elif event_type == "error": return {"status": "error", ...}
OnError(c, e) ==
    [c EXCEPT
       !.pc = "returned",
       !.returned = [status |-> "error",
                     error |-> IF "error" \in DOMAIN e THEN e.error
                               ELSE "Unknown error"]]

\* Mutant of HandleEvent: an event of a type the client does not know ends
\* the consumption as an error does.
HandleEventUnknownIsFatal(c, e) ==
    CASE EventType(e) = "text_chunk" -> OnTextChunk(c, e)
      [] EventType(e) = "tool_use" -> OnToolUse(c, e)
      [] EventType(e) = "tool_result" -> OnToolResult(c, e)
      [] EventType(e) = "node_start" -> OnNodeStart(c, e)
      [] EventType(e) = "node_complete" -> OnNodeComplete(c, e)
      [] EventType(e) = "error" -> OnError(c, e)
      [] OTHER -> OnError(c, e)

\* The if / elif chain on event_type: no branch for any other type.
HandleEvent(c, e) ==
    CASE EventType(e) = "text_chunk" -> OnTextChunk(c, e)
      [] EventType(e) = "tool_use" -> OnToolUse(c, e)
      [] EventType(e) = "tool_result" -> OnToolResult(c, e)
      [] EventType(e) = "node_start" -> OnNodeStart(c, e)
      [] EventType(e) = "node_complete" -> OnNodeComplete(c, e)
      [] EventType(e) = "error" -> OnError(c, e)
      [] OTHER -> c

\* Everything but the locals of invoke_fund_manager.
consumerFrame == <<consultationVars, memory, now, sessions, advisor,
                   constructions, agent_client, tasks, text_content,
                   extracted, adapter>>

\* agentcore_client.invoke_agent_runtime(...) returns the response; the
\* locals are initialised.
invoke_fund_manager ==
    /\ consumer.pc = "invoke"
    /\ consumer' = [consumer EXCEPT !.pc = "iter_lines"]
    /\ UNCHANGED consumerFrame

\* invoke_agent_runtime raises: except Exception returns the error status.
invoke_fund_manager_raises ==
    /\ consumer.pc = "invoke"
    /\ consumer' = [consumer EXCEPT
                      !.pc = "returned",
                      !.returned = [status |-> "error", error |-> "ClientError"]]
    /\ UNCHANGED consumerFrame

\* One iteration of the loop over the lines of the response.
invoke_fund_manager_iter_lines(line) ==
    /\ consumer.pc = "iter_lines"
    /\ Len(consumer.lines) < MaxConsumerLines
    /\ LET c == [consumer EXCEPT !.lines = Append(@, line)] IN
       consumer' =
         IF line = <<>> \/ ~StartsWithData(line) THEN c
         ELSE LET event_data == JsonLoads(Body(line)) IN
              IF event_data = JSONDecodeError THEN c
              ELSE IF ~IsDict(event_data)
              THEN [c EXCEPT !.pc = "returned",
                             !.returned = [status |-> "error",
                                           error |-> "AttributeError"]]
              ELSE HandleEvent(c, event_data)
    /\ UNCHANGED consumerFrame

\* The stream ends: the completion message is drawn, the success status
\* returned.
invoke_fund_manager_returns ==
    /\ consumer.pc = "iter_lines"
    /\ consumer' = [consumer EXCEPT
                      !.pc = "returned",
                      !.displayed = Display(consumer, "success", None, <<>>),
                      !.returned = [status |-> "success"]]
    /\ UNCHANGED consumerFrame

NextConsumer ==
    \/ invoke_fund_manager
    \/ invoke_fund_manager_raises
    \/ \E line \in ConsumerLines : invoke_fund_manager_iter_lines(line)
    \/ invoke_fund_manager_returns

SpecConsumer == Init /\ [][NextConsumer]_vars

----------------------------------------------------------------------------
(* The agent adapters: FinancialAnalyst.analyze_financial_situation_async, *)
(* PortfolioArchitect.design_portfolio_async, RiskManager.analyze_risk_async*)
(* Each is an async generator over the events of self.agent.stream_async   *)
(* and yields the events of the agent's stream.  adapter holds the agent   *)
(* called, the model events read and the events yielded.                   *)

\* str(event["result"]) is the text of the result of the model.
AgentResult(text) == [k |-> "AgentResult", v |-> text]
RawResult(model_result) == Str(model_result.v)

\* The events stream_async may deliver: a text delta, the message with a
\* tool call, the message with a tool result, the result (a JSON object in
\* prose), an event with all of these keys, an event with none of them.
DataEvent == [data |-> "t"]
ToolUseEvent ==
    [message |-> [role |-> "assistant",
                  content |-> <<[text |-> "t"],
                                [toolUse |-> [name |-> "calculator",
                                              toolUseId |-> "t1",
                                              input |-> "1+1"]]>>]]
ToolResultEvent ==
    [message |-> [role |-> "user",
                  content |-> <<[toolResult |-> [toolUseId |-> "t1",
                                                 status |-> "success",
                                                 content |-> "2"]]>>]]
ResultEvent == [result |-> AgentResult(<<"a", "{", "}", "a">>)]
FullEvent ==
    [data |-> "t",
     message |-> ToolUseEvent.message,
     result |-> AgentResult(<<"{", "a", "}">>)]
OtherEvent == [init_event_loop |-> TRUE]

ModelEvents == {DataEvent, ToolUseEvent, ToolResultEvent, ResultEvent,
                FullEvent, OtherEvent}

\* if "data" in event: yield {"type": "text_chunk", ...}
TextChunks(event) ==
    IF "data" \in DOMAIN event
    THEN <<[k |-> "dict", type |-> "text_chunk", data |-> event.data]>>
    ELSE <<>>

\* The tool_use event of a content block of an assistant message.
ToolUse(content) ==
    [k |-> "dict", type |-> "tool_use",
     tool_name |-> content.toolUse.name,
     tool_use_id |-> content.toolUse.toolUseId,
     tool_input |-> content.toolUse.input]

\* The tool_result event of a content block of a user message.
ToolResult(content) ==
    [k |-> "dict", type |-> "tool_result",
     tool_use_id |-> content.toolResult.toolUseId,
     status |-> content.toolResult.status,
     content |-> content.toolResult.content]

\* The events yielded for the content blocks from position i on.
RECURSIVE ContentEvents(_, _, _)
ContentEvents(role, content, i) ==
    IF i > Len(content) THEN <<>>
    ELSE (IF role = "assistant" /\ "toolUse" \in DOMAIN content[i]
          THEN <<ToolUse(content[i])>>
          ELSE IF role = "user" /\ "toolResult" \in DOMAIN content[i]
          THEN <<ToolResult(content[i])>>
          ELSE <<>>)
         \o ContentEvents(role, content, i + 1)

\* if "message" in event: ...
MessageEvents(event) ==
    IF "message" \in DOMAIN event
    THEN ContentEvents(event.message.role, event.message.content, 1)
    ELSE <<>>

\* if "result" in event: yield {"type": "streaming_complete", ...}
StreamingComplete(event) ==
    IF "result" \in DOMAIN event
    THEN <<[k |-> "dict", type |-> "streaming_complete",
            result |-> ExtractJsonFromText(RawResult(event.result))]>>
    ELSE <<>>

\* Mutant of Yields: the streaming_complete is yielded first.
YieldsCompleteFirst(event) ==
    StreamingComplete(event) \o TextChunks(event) \o MessageEvents(event)

\* The events the body of the loop yields for one model event, in order.
Yields(event) ==
    TextChunks(event) \o MessageEvents(event) \o StreamingComplete(event)

\* The adapters whose loop is inside try / except Exception.
HasTry(a) == a \in {"financial", "risk"}

\* yield {"type": "error", "error": str(e), "status": "error"}
AdapterErrorEvent(e) ==
    [k |-> "dict", type |-> "error", error |-> e, status |-> "error"]

\* An exception e raised inside the async for: the except clause of the
\* adapter yields an error event and the generator returns; without one the
\* exception leaves the generator.
Raise(ad, e) ==
    IF HasTry(ad.agent)
    THEN [ad EXCEPT !.yielded = Append(@, AdapterErrorEvent(e)),
                    !.pc = "returned"]
    ELSE [ad EXCEPT !.exception = e, !.pc = "raised"]

\* Everything but the adapter.
adapterFrame == <<consultationVars, memory, now, sessions, advisor,
                  constructions, agent_client, tasks, text_content,
                  extracted, consumer>>

\* The entrypoint of agent a calls its adapter with payload["input_data"].
agent_entrypoint(a) ==
    /\ adapter.pc = "entrypoint"
    /\ adapter' = [adapter EXCEPT !.pc = "stream_async", !.agent = a]
    /\ UNCHANGED adapterFrame

\* stream_async delivers an event: one iteration of the async for.
stream_async_event(event) ==
    /\ adapter.pc = "stream_async"
    /\ Len(adapter.model_events) < MaxModelEvents
    /\ adapter' = [adapter EXCEPT !.model_events = Append(@, event),
                                  !.yielded = @ \o Yields(event)]
    /\ UNCHANGED adapterFrame

\* stream_async (or entering the MCP client) raises.
stream_async_raises ==
    /\ adapter.pc = "stream_async"
    /\ adapter' = Raise(adapter, "ModelError")
    /\ UNCHANGED adapterFrame

\* stream_async is exhausted: the generator returns.
stream_async_ends ==
    /\ adapter.pc = "stream_async"
    /\ adapter' = [adapter EXCEPT !.pc = "returned"]
    /\ UNCHANGED adapterFrame

NextAdapter ==
    \/ \E a \in NodeSet : agent_entrypoint(a)
    \/ \E event \in ModelEvents : stream_async_event(event)
    \/ stream_async_raises
    \/ stream_async_ends

SpecAdapter == Init /\ [][NextAdapter]_vars

----------------------------------------------------------------------------
(* Vocabulary of the properties *)

\* The order of the stages the specification names.
StageOrder == <<"financial", "portfolio", "risk">>
StageIndex(n) ==
    CASE n = "financial" -> 1
      [] n = "portfolio" -> 2
      [] n = "risk" -> 3

\* A dict of type t (every dict of the model carries a type).
HasType(e, t) == e.k = "dict" /\ e.type = t

\* A marker written by a node (it names its agent); the positions of the
\* markers of type t of stage n.
IsMarker(e) ==
    /\ e.k = "dict"
    /\ e.type # "text_chunk" /\ e.type # "error" /\ e.type # "streaming_complete"
MarkerPositions(t, n) ==
    {i \in 1..Len(events) :
        /\ events[i].k = "dict"
        /\ events[i].type = t
        /\ events[i].agent_name = n}

\* The markers a consultation that runs all stages yields, in order.
ExpectedMarkers ==
    [i \in 1..(2 * Len(StageOrder)) |->
        [type |-> IF i % 2 = 1 THEN "node_start" ELSE "node_complete",
         agent_name |-> StageOrder[(i + 1) \div 2]]]

\* A line that carries the "data: " prefix and whose body decodes as JSON.
WellFormed(line) ==
    /\ line # <<>>
    /\ ~DecodeRaises(line)
    /\ StartsWithData(line)
    /\ JsonLoads(Body(line)) # JSONDecodeError

\* A text line the loop has to skip: empty, without the prefix, or with a
\* body that is not JSON.
Malformed(line) ==
    \/ line = <<>>
    \/ ~DecodeRaises(line) /\ ~StartsWithData(line)
    \/ ~DecodeRaises(line) /\ StartsWithData(line)
         /\ JsonLoads(Body(line)) = JSONDecodeError

\* The decoded well-formed records of the lines received from agent n.
DecodedRecords(n) ==
    LET wf == SelectSeq(received[n], WellFormed)
    IN [i \in 1..Len(wf) |-> JsonLoads(Body(wf[i]))]

\* The positions of the well-formed records of type t received from agent n.
RecordPositions(n, t) ==
    {i \in 1..Len(received[n]) :
        WellFormed(received[n][i]) /\ HasType(JsonLoads(Body(received[n][i])), t)}

\* Agent n's stream delivered a streaming_complete / an error event.
HasComplete(n) == RecordPositions(n, "streaming_complete") # {}
HasError(n) == RecordPositions(n, "error") # {}

\* The chunks yielded after stage n's node_start up to the next marker.
Forwarded(n) ==
    IF MarkerPositions("node_start", n) = {} THEN <<>>
    ELSE LET s == CHOOSE i \in MarkerPositions("node_start", n) : TRUE
             later == {j \in (s+1)..Len(events) : IsMarker(events[j])}
             e == IF later = {} THEN Len(events) + 1
                  ELSE CHOOSE j \in later : \A j2 \in later : j <= j2
         IN SubSeq(events, s + 1, e - 1)

\* The result carried by stage n's node_complete marker.
CompleteResult(n) ==
    events[CHOOSE i \in MarkerPositions("node_complete", n) : TRUE].result

\* Stage n was entered / its call of call_agent_with_streaming is over
\* (returned or raised).
Started(n) == pc # "entrypoint" /\ StageIndex(node) >= StageIndex(n)
CallEnded(n) ==
    \/ pc # "entrypoint" /\ StageIndex(node) > StageIndex(n)
    \/ node = n /\ pc \in {"node_complete", "save_to_memory", "store", "done", "raised"}

\* The stream of agent n was read to its end and the call returned.
StreamEnded(n) ==
    \/ pc # "entrypoint" /\ StageIndex(node) > StageIndex(n)
    \/ node = n /\ pc \in {"node_complete", "save_to_memory", "store", "done"}

Finished == pc \in {"done", "raised"}

LastEventIsError ==
    Len(events) > 0 /\ HasType(events[Len(events)], "error")

InvokedAgents == {invocations[i].agent_type : i \in 1..Len(invocations)}
MemoryCallsOf(n) == {i \in 1..Len(memory_calls) : memory_calls[i].node = n}

\* The input text a create_event call records (the USER message).
RecordedInput(call) == call.messages[1].text[3]

\* str(x), or json.dumps(x) for a dict: the text save_to_memory records.
TextForm(x) == IF x.k = "dict" THEN JsonDumps(x) ELSE PyStr(x)

ClientEventTypes ==
    {"text_chunk", "tool_use", "tool_result", "node_start", "node_complete", "error"}

----------------------------------------------------------------------------
(* C1 - C10 *)

C2_FailFast ==
    \A k \in 1..(Len(StageOrder) - 1) :
      LET n == StageOrder[k] IN
      (StreamEnded(n) /\ HasError(n) /\ ~HasComplete(n)) =>
        /\ \A m \in NodeSet : StageIndex(m) > k =>
             /\ m \notin InvokedAgents
             /\ MarkerPositions("node_start", m) = {}
             /\ MarkerPositions("node_complete", m) = {}
        /\ Finished => LastEventIsError

C4_MemoryBestEffort ==
    \A i \in 1..Len(memory_calls) :
      ~memory_calls[i].ok =>
        LET n == memory_calls[i].node IN
        /\ exception # NoException => node # n
        /\ pc = "raised" => StageIndex(node) > StageIndex(n)
        /\ Cardinality({j \in 1..Len(events) : HasType(events[j], "error")})
             = Cardinality(RecordPositions("financial", "error"))
               + Cardinality(RecordPositions("portfolio", "error"))
               + Cardinality(RecordPositions("risk", "error"))
        /\ (node # n \/ pc = "done") =>
             state[StateField(n)] = CompleteResult(n)
        /\ pc = "done" => InvokedAgents = NodeSet

C4_Witness ==
    /\ pc = "done"
    /\ \E i \in 1..Len(memory_calls) :
         ~memory_calls[i].ok /\ memory_calls[i].node = "financial"
    /\ InvokedAgents = NodeSet
    /\ state.financial_analysis = Str("A")

\* C5: when a call of call_agent_with_streaming is over and its stream
\* delivered no streaming_complete, an error event was passed to the writer
\* during the call, no final result was produced and nothing was raised.
C5_ErrorEventWithoutCompletion ==
    \A n \in NodeSet :
      (Started(n) /\ CallEnded(n) /\ ~HasComplete(n)) =>
        /\ LET fw == Forwarded(n)
           IN \E i \in 1..Len(fw) : HasType(fw[i], "error")
        /\ exception = NoException
        /\ (node = n /\ pc = "node_complete") => result = None

\* C6: a stage has a node_complete marker only if its stream delivered a
\* streaming_complete; a stage whose stream ended without one writes no
\* memory event and stores nothing in the threaded state.
C6_CompleteOnlyOnSuccess ==
    \A n \in NodeSet :
      /\ MarkerPositions("node_complete", n) # {} => HasComplete(n)
      /\ (CallEnded(n) /\ ~HasComplete(n)) =>
           /\ MemoryCallsOf(n) = {}
           /\ state[StateField(n)] = Str("")

\* C7: a finished consultation in which a stage failed (error event, no
\* streaming_complete, or an exception in the call) ends with an error event
\* and with no exception escaping to the caller.
C7_TerminalErrorEvent ==
    (Finished /\ \E n \in NodeSet :
        Started(n) /\ (HasError(n) \/ ~HasComplete(n)
                       \/ (exception # NoException /\ node = n))) =>
      /\ exception = NoException
      /\ LastEventIsError

NotMarker(e) == ~IsMarker(e)
C9_ForwardedInOrder ==
    SelectSeq(events, NotMarker)
      = DecodedRecords("financial") \o DecodedRecords("portfolio")
          \o DecodedRecords("risk")

C9_Witness ==
    \E n \in NodeSet :
      /\ Len(received[n]) = 3
      /\ Malformed(received[n][2])
      /\ LET fw == Forwarded(n)
         IN Len(fw) = 2 /\ fw[1] # fw[2]

----------------------------------------------------------------------------
(* C11 - C20 *)

\* What the running consultation was started with.
CurrentSession == sessions[Len(sessions)]

\* The session id run_consultation has to use for a session started with
\* payload p at clock reading t: the supplied one, or the one generated
\* from the clock at the start (an empty id counts as none, `not session_id`).
SessionIdFor(p, t) ==
    IF Truthy(p.session_id) THEN p.session_id ELSE GeneratedSessionId(t)

\* C11: once a consultation has started, every node_start and node_complete
\* marker it has yielded and every create_event call it has made carries
\* the session id of the threaded state, and that id is the one the payload
\* supplied, or else the one generated from the clock reading at the start
\* of run_consultation (so it is the same in every state of the
\* consultation).
C11_OneSessionId ==
    pc # "entrypoint" =>
        LET sid == SessionIdFor(CurrentSession.payload, CurrentSession.started) IN
        /\ state.session_id = sid
        /\ \A i \in 1..Len(events) :
              IsMarker(events[i]) => events[i].session_id = sid
        /\ \A i \in 1..Len(memory_calls) :
              memory_calls[i].call.session_id = sid

\* A consultation with a supplied id has run all stages and made three
\* create_event calls.
C11_Witness ==
    /\ pc = "done"
    /\ Truthy(CurrentSession.payload.session_id)
    /\ Len(SelectSeq(events, IsMarker)) = 6
    /\ Len(memory_calls) = 3
    /\ state.session_id = CurrentSession.payload.session_id

\* The sessions started without a supplied session_id.
Generated == {i \in 1..Len(sessions) : ~Truthy(sessions[i].payload.session_id)}

\* Two clock readings more than one second apart.
MoreThanOneSecondApart(t1, t2) ==
    t1 - t2 > TicksPerSecond \/ t2 - t1 > TicksPerSecond

\* The number of characters of session_<YYYYMMDD>_<HHMMSS>.
SessionIdLength == Len("session_") + 8 + 1 + 6

\* C12: every session started without a supplied id has the id "session_"
\* followed by the date and time of the clock reading at its start
\* (YYYYMMDD_HHMMSS), and two such sessions whose clock readings are more
\* than one second apart have distinct ids.
C12_DistinctGeneratedIds ==
    /\ \A i \in Generated :
          /\ sessions[i].session_id = GeneratedSessionId(sessions[i].started)
          /\ Len(sessions[i].session_id.v) = SessionIdLength
    /\ \A i \in Generated : \A j \in Generated :
          MoreThanOneSecondApart(sessions[i].started, sessions[j].started)
              => sessions[i].session_id # sessions[j].session_id

\* Two sessions without a supplied id were started more than one second
\* apart, the second one past the turn of the minute.
C12_Witness ==
    /\ Len(sessions) >= 2
    /\ {1, 2} \subseteq Generated
    /\ MoreThanOneSecondApart(sessions[1].started, sessions[2].started)
    /\ sessions[1].session_id = Str("session_20260101_000059")
    /\ sessions[2].session_id = Str("session_20260101_000100")

\* The positions of the character ch in the text s.
PositionsOf(s, ch) == {i \in 1..Len(s) : s[i] = ch}
Min(S) == CHOOSE i \in S : \A j \in S : i <= j
Max(S) == CHOOSE i \in S : \A j \in S : i >= j

\* C13: when extract_json_from_text has returned for a string: if the
\* string has a '{' and a '}' after it, the value returned is the substring
\* from the first '{' through the last '}'; if the string has no brace at
\* all, the value returned is the string itself.
C13_ExtractJson ==
    (extracted # NotCalled /\ text_content.k = "str") =>
        LET s == text_content.v
            open == PositionsOf(s, "{")
            close == PositionsOf(s, "}")
        IN /\ (\E i \in open : \E j \in close : i < j)
                => extracted = Str(SubSeq(s, Min(open), Max(close)))
           /\ (open = {} /\ close = {}) => extracted = text_content

\* The function returned the braces and what is between them, dropping a
\* leading and a trailing character.
C13_Witness ==
    /\ text_content = Str(<<"a", "{", "}", "a">>)
    /\ extracted = Str(<<"{", "}">>)

\* The call of save_to_memory of stage n has returned.
SaveReturned(n) ==
    \/ pc # "entrypoint" /\ StageIndex(node) > StageIndex(n)
    \/ node = n /\ pc \in {"store", "done"}

\* An output that is absent: None or empty.
Absent(x) == x = None \/ x = Str("")

\* C14: a stage whose save_to_memory has not returned has made no
\* create_event call; once it has returned, the stage has made no call when
\* its output (the result of its node_complete marker) is None or empty,
\* and exactly one call otherwise; when a consultation is done and all
\* three outputs are present, the calls made are exactly three, of
\* financial, portfolio and risk in that order.
C14_OneWritePerOutput ==
    /\ \A n \in NodeSet :
          Cardinality(MemoryCallsOf(n)) =
              IF SaveReturned(n) /\ ~Absent(CompleteResult(n)) THEN 1 ELSE 0
    /\ (pc = "done" /\ \A n \in NodeSet : ~Absent(CompleteResult(n)))
          => [i \in 1..Len(memory_calls) |-> memory_calls[i].node] = StageOrder

\* A consultation is done in which financial reported a text (one call),
\* portfolio an empty text and risk nothing (no call for either).
C14_Witness ==
    /\ pc = "done"
    /\ CompleteResult("financial") = Str("A")
    /\ CompleteResult("portfolio") = Str("")
    /\ CompleteResult("risk") = None
    /\ Len(memory_calls) = 1
    /\ memory_calls[1].node = "financial"

\* The stream of the i-th invocation has been read to its end: the node
\* that made it has written its node_complete marker, which it does after
\* call_agent_with_streaming has returned.
ReadToEnd(i) == MarkerPositions("node_complete", invocations[i].agent_type) # {}

\* C15: in every step, a line is read only from the stream of the latest
\* invocation, and a new invocation is made only when the streams of all
\* earlier invocations have been read to their end (so at most one stream
\* is open at any time, and the agent of stage n+1 is invoked after the
\* stream of stage n has ended).
C15_OneOpenStream ==
    [][ /\ \A n \in NodeSet :
              received'[n] # received[n] =>
                  /\ invocations' = invocations
                  /\ Len(invocations) > 0
                  /\ invocations[Len(invocations)].agent_type = n
        /\ invocations' # invocations =>
              /\ Len(invocations') = Len(invocations) + 1
              /\ \A i \in 1..Len(invocations) : ReadToEnd(i)
      ]_vars

\* The stream of the third invocation is being read.
C15_Witness ==
    /\ pc = "iter_lines"
    /\ Len(invocations) = 3
    /\ invocations[3].agent_type = "risk"
    /\ Len(received["risk"]) > 0
    /\ ReadToEnd(1) /\ ReadToEnd(2) /\ ~ReadToEnd(3)

\* The stages executed so far: the agents named by the node_start markers.
Executed ==
    LET starts == SelectSeq(events, LAMBDA e : HasType(e, "node_start"))
    IN [i \in 1..Len(starts) |-> starts[i].agent_name]

\* C19: in every step the stages executed so far are a prefix of financial,
\* portfolio, risk; the graph moves from a node only when the node has
\* returned, and then to the next stage in that order; the graph is done
\* only after risk, with all three stages executed, and once it is done
\* nothing runs any more.
C19_LinearStages ==
    [][ /\ Len(Executed') <= Len(StageOrder)
        /\ Executed' = SubSeq(StageOrder, 1, Len(Executed'))
        /\ node' # node =>
              /\ pc = "store"
              /\ StageIndex(node) < Len(StageOrder)
              /\ node' = StageOrder[StageIndex(node) + 1]
        /\ pc' = "done" => node = "risk" /\ Executed = StageOrder
        /\ pc # "done"
      ]_vars

\* The graph is done after the three stages.
C19_Witness ==
    /\ pc = "done"
    /\ node = "risk"
    /\ Executed = StageOrder
    /\ Len(invocations) = 3

\* The latest marker among the events is the marker of type t of stage n.
LastMarkerIs(t, n) ==
    LET markers == SelectSeq(events, IsMarker) IN
    /\ Len(markers) > 0
    /\ markers[Len(markers)].type = t
    /\ markers[Len(markers)].agent_name = n

\* C20: in every step of a consultation,
\*  - a node_start marker is written as the first event at all or right
\*    after the node_complete marker of the previous stage;
\*  - any other event (a forwarded agent event, or node_complete) is written
\*    while the latest marker is the node_start of the running stage;
\*  - a create_event call is made while the latest marker is the
\*    node_complete of the running stage (after node_complete, before the
\*    next node_start);
\*  - the threaded state changes while that is still so, and after the
\*    stage's create_event call (or with an absent output, for which
\*    save_to_memory makes no call).
C20_StageEventOrder ==
    [][ /\ events' # events =>
              /\ Len(events') = Len(events) + 1
              /\ SubSeq(events', 1, Len(events)) = events
              /\ IF HasType(events'[Len(events')], "node_start")
                 THEN \/ events = <<>>
                      \/ /\ HasType(events[Len(events)], "node_complete")
                         /\ StageIndex(events[Len(events)].agent_name) + 1
                              = StageIndex(events'[Len(events')].agent_name)
                 ELSE LastMarkerIs("node_start", node)
        /\ memory_calls' # memory_calls =>
              /\ events' = events
              /\ state' = state
              /\ LastMarkerIs("node_complete", node)
              /\ memory_calls'[Len(memory_calls')].node = node
        /\ (state' # state /\ pc # "entrypoint") =>
              /\ events' = events
              /\ memory_calls' = memory_calls
              /\ LastMarkerIs("node_complete", node)
              /\ MemoryCallsOf(node) # {} \/ Absent(result)
      ]_vars

\* Portfolio forwarded two events between its markers, saved to memory and
\* stored its output; risk has not started.
C20_Witness ==
    /\ pc = "node_start"
    /\ node = "risk"
    /\ Len(Forwarded("portfolio")) = 2
    /\ LastMarkerIs("node_complete", "portfolio")
    /\ MemoryCallsOf("portfolio") # {}
    /\ state.portfolio_recommendation = Str("A")

\* The create_event calls of the running consultation that the Memory
\* Service accepted.
Accepted ==
    LET ok == SelectSeq(memory_calls, LAMBDA c : c.ok)
    IN [i \in 1..Len(ok) |-> ok[i].call]

\* C18: every step leaves the events the Memory Service holds as they are
\* and adds at most one event after them; after every step of a
\* consultation the trail is the trail the consultation found at its start
\* followed by the events of its accepted create_event calls, and every
\* stage whose save_to_memory has returned with an output has made exactly
\* one call, whether or not the trail already holds an equal event (a
\* second consultation with the same session_id included).
C18_AppendOnlyMemory ==
    [][ /\ Len(memory') \in {Len(memory), Len(memory) + 1}
        /\ SubSeq(memory', 1, Len(memory)) = memory
        /\ pc' # "entrypoint" =>
              /\ memory' = sessions'[Len(sessions')].memory \o Accepted'
              /\ \A n \in NodeSet :
                    (SaveReturned(n)' /\ ~Absent(CompleteResult(n)'))
                        => Cardinality(MemoryCallsOf(n)') = 1
      ]_vars

\* A second consultation with the session_id of the first one is done, and
\* the trail holds the event of the first followed by an equal event of the
\* second.
C18_Witness ==
    /\ pc = "done"
    /\ Len(sessions) = 2
    /\ sessions[1].session_id = Str("s-1")
    /\ sessions[2].session_id = Str("s-1")
    /\ Len(sessions[2].memory) = 1
    /\ Len(memory) = 2
    /\ memory[1] = memory[2]

\* The values request c may carry: nothing, its own input, and the results
\* its own agents report.
OwnValues ==
    [c \in Consultations |->
        {None, Str(""), TaskPayloads[c].input_data}
            \cup {Get(JsonLoads(Body(line)), "result") : line \in TaskLines[c]}]

\* The records request c's agents deliver.
OwnRecords ==
    [c \in Consultations |-> {JsonLoads(Body(line)) : line \in TaskLines[c]}]

\* The create_event calls request c can make from its own values.
OwnCalls ==
    [c \in Consultations |->
        {CreateEventCall(TaskPayloads[c].session_id, n, x, y) :
            n \in NodeSet, x \in OwnValues[c], y \in OwnValues[c]}]

\* Request c holds only its own session id and its own values: in its
\* threaded state, in the markers it has yielded and in the payloads it has
\* sent to its agents; what it has yielded from agents is what its own
\* agents deliver; its markers are in stage order.
OwnOnly(c) ==
    LET t == tasks[c]
        sid == TaskPayloads[c].session_id
        markers == SelectSeq(t.events, IsMarker)
    IN t.pc # "entrypoint" =>
        /\ t.state.session_id = sid
        /\ t.state.user_input = TaskPayloads[c].input_data
        /\ \A n \in NodeSet : t.state[StateField(n)] \in OwnValues[c]
        /\ \A i \in 1..Len(t.events) :
              IF IsMarker(t.events[i])
              THEN /\ t.events[i].session_id = sid
                   /\ HasType(t.events[i], "node_complete")
                        => t.events[i].result \in OwnValues[c]
              ELSE t.events[i] \in OwnRecords[c]
        /\ \A i \in 1..Len(t.invocations) :
              t.invocations[i].payload.input_data \in OwnValues[c]
        /\ Len(markers) <= Len(ExpectedMarkers)
        /\ \A i \in 1..Len(markers) :
              /\ markers[i].type = ExpectedMarkers[i].type
              /\ markers[i].agent_name = ExpectedMarkers[i].agent_name

\* Every event the Memory Service holds was written by one request from
\* its own session id and its own values.
OwnMemory ==
    \A i \in 1..Len(memory) :
        \E c \in Consultations : memory[i] \in OwnCalls[c]

\* C16: for two requests with different session ids, after every step of
\* every interleaving each request holds and has yielded only its own
\* session id and values derived from its own input and its own agents'
\* results, every memory event is built from one request's id and values,
\* and a step of one request leaves the locals and the yielded events of
\* the other as they are.
C16_NoInterference ==
    [][ /\ \A c \in Consultations : OwnOnly(c)'
        /\ OwnMemory'
        /\ \A c \in Consultations : \A d \in Consultations :
              (c # d /\ tasks'[c] # tasks[c]) => tasks'[d] = tasks[d]
      ]_vars

\* Both requests are done, each with a result of its own agents, and the
\* Memory Service holds an event of the second request before one of the
\* first.
C16_Witness ==
    /\ tasks["c1"].pc = "done" /\ tasks["c2"].pc = "done"
    /\ tasks["c1"].state.financial_analysis = Str("A")
    /\ tasks["c2"].state.financial_analysis = Dict("R")
    /\ Len(memory) = 2
    /\ memory[1].session_id = Str("s-2")
    /\ memory[2].session_id = Str("s-1")

\* C17: in every state of every interleaving of the two first requests,
\* FundManager() has been called at most once, exactly once as soon as a
\* request is past the start of its entrypoint, and advisor is then that
\* FundManager; the arns and the memory id of the shared agent_client are
\* the ones resolved when the module was imported.
C17_SingleAdvisor ==
    /\ constructions <= 1
    /\ (\E c \in Consultations : tasks[c].pc # "entrypoint")
          => constructions = 1 /\ advisor = FundManager
    /\ agent_client.arns = arns
    /\ agent_client.memory_id = memory_id

\* Both requests are past their entrypoint and run their nodes.
C17_Witness ==
    /\ tasks["c1"].pc = "iter_lines"
    /\ tasks["c2"].pc = "iter_lines"
    /\ constructions = 1
    /\ advisor = FundManager

----------------------------------------------------------------------------
(* C21 - C30 *)

\* The field of the threaded state the specification gives each stage.
OwnField ==
    [n \in NodeSet |->
        CASE n = "financial" -> "financial_analysis"
          [] n = "portfolio" -> "portfolio_recommendation"
          [] n = "risk" -> "risk_analysis"]

\* C21: in every step of a started consultation user_input and session_id
\* stay as they are; a stage's field changes only in a step of that stage
\* (after its node_complete marker) and only from its initial empty value,
\* so it is written at most once; and after every step the fields of the
\* stages after the running one hold the initial empty value.
C21_StateFieldFrame ==
    [][ pc # "entrypoint" =>
          /\ state'.user_input = state.user_input
          /\ state'.session_id = state.session_id
          /\ \A n \in NodeSet :
                state'[OwnField[n]] # state[OwnField[n]] =>
                    /\ n = node
                    /\ LastMarkerIs("node_complete", n)
                    /\ state[OwnField[n]] = Str("")
          /\ \A n \in NodeSet :
                StageIndex(n) > StageIndex(node') =>
                    state'[OwnField[n]] = Str("")
      ]_vars

\* All three stages have stored a result, each in its own field.
C21_Witness ==
    /\ pc = "done"
    /\ state.user_input = Dict("U")
    /\ state.financial_analysis = Str("A")
    /\ state.portfolio_recommendation = Str("A")
    /\ state.risk_analysis = Str("A")

\* Stage n's call of call_agent_with_streaming has returned and the node
\* has written the value returned into its node_complete marker.
Returned(n) == MarkerPositions("node_complete", n) # {}

\* The result field of the last streaming_complete record agent n's stream
\* delivered: None without such a record, and None when the record has no
\* result field.
LastCompleteResult(n) ==
    LET cs == RecordPositions(n, "streaming_complete") IN
    IF cs = {} THEN None
    ELSE LET r == JsonLoads(Body(received[n][Max(cs)]))
         IN IF "result" \in DOMAIN r THEN r.result ELSE None

StageInput(n) ==
    invocations[CHOOSE k \in 1..Len(invocations) :
                    invocations[k].agent_type = n].payload.input_data

\* The messages of a memory write of stage n, with `request` between the
\* stage name and the serialized input of the USER turn: a dict input as
\* JSON, any other input by str().
TwoTurns(call, n, request) ==
    LET input == StageInput(n)
        output == CompleteResult(n)
        serialized == IF input.k = "dict" THEN JsonDumps(input) ELSE PyStr(input)
    IN /\ call.actor_id = "fund_user"
       /\ Len(call.messages) = 2
       /\ call.messages[1] = [text |-> <<n, request, serialized>>, role |-> "USER"]
       /\ call.messages[2] = [text |-> <<n, " result: ", PyStr(output)>>,
                              role |-> "ASSISTANT"]

\* C23 as stated: every create_event call has actor fund_user and two
\* messages, a USER turn "{stage}analysis request: {input}" (the stage name
\* immediately followed by "analysis request: ") and an ASSISTANT turn
\* "{stage} result: {output}", with a dict input serialized as JSON and any
\* other input by its string form.
C23_TurnsAsQuoted ==
    \A i \in 1..Len(memory_calls) :
        TwoTurns(memory_calls[i].call, memory_calls[i].node, "analysis request: ")

\* C23 amended: every create_event call has actor fund_user and two
\* messages, a USER turn "{stage} analysis request: {input}" (a space
\* between the stage name and "analysis request: ") and an ASSISTANT turn
\* "{stage} result: {output}", with a dict input serialized as JSON and any
\* other input by its string form.
C23_TwoTurns ==
    \A i \in 1..Len(memory_calls) :
        TwoTurns(memory_calls[i].call, memory_calls[i].node, " analysis request: ")

\* A consultation that made three memory writes: of financial with the
\* dict of the user request as input, and of portfolio with a string.
C23_Witness ==
    /\ pc = "done"
    /\ Len(memory_calls) = 3
    /\ memory = [i \in 1..3 |-> memory_calls[i].call]
    /\ StageInput("financial") = Dict("U")
    /\ RecordedInput(memory_calls[1].call) = "{\"age\": 34}"
    /\ StageInput("portfolio") = Str("A")
    /\ RecordedInput(memory_calls[2].call) = "A"

\* The graph is done: all three stages were executed, each to its
\* node_complete, and nothing was raised.
GraphDone ==
    /\ pc = "done"
    /\ exception = NoException
    /\ Executed = StageOrder
    /\ \A n \in NodeSet : Returned(n)

\* The graph halted at the stage whose agent call raised: the stages up to
\* it were executed, it has no node_complete, and no later stage was
\* executed.
HaltedAtFailedStage ==
    /\ pc = "raised"
    /\ exception # NoException
    /\ Executed = SubSeq(StageOrder, 1, StageIndex(node))
    /\ ~Returned(node)
    /\ \A n \in NodeSet : StageIndex(n) < StageIndex(node) => Returned(n)

\* C24: a consultation that was started terminates, whatever the (finite)
\* streams of the agents deliver and whether or not create_event raises;
\* when it has terminated the graph is done with all three stages executed
\* or halted at the first stage whose agent call raised, and the events
\* yielded are finitely many: the markers of the executed stages and the
\* records received.
C24_Terminates ==
    /\ (pc # "entrypoint") ~> Finished
    /\ [](Finished => (GraphDone \/ HaltedAtFailedStage))
    /\ [](Len(events) <= 2 * Len(StageOrder) + MaxLines)

\* A consultation that is done although a create_event call raised, after
\* a stream of more than one line.
C24_Witness ==
    /\ GraphDone
    /\ \E i \in 1..Len(memory_calls) : ~memory_calls[i].ok
    /\ \E n \in NodeSet : Len(received[n]) > 1

\* The step reads one more line, and that line is an event (a JSON object)
\* whose type is none of the six the web client handles.
ReadsUnknownEvent ==
    /\ consumer.pc = "iter_lines"
    /\ Len(consumer'.lines) = Len(consumer.lines) + 1
    /\ LET line == consumer'.lines[Len(consumer'.lines)] IN
       /\ WellFormed(line)
       /\ IsDict(JsonLoads(Body(line)))
       /\ EventType(JsonLoads(Body(line))) \notin ClientEventTypes

\* C25: a step of invoke_fund_manager that reads an event whose type is
\* not text_chunk, tool_use, tool_result, node_start, node_complete or error
\* changes none of the locals (current agent, per-agent text, tool-id maps,
\* containers), draws nothing, returns nothing, and leaves the loop reading.
C25_UnknownEventIgnored ==
    [][ ReadsUnknownEvent =>
          /\ consumer'.current_agent = consumer.current_agent
          /\ consumer'.current_thinking = consumer.current_thinking
          /\ consumer'.tool_id_to_name = consumer.tool_id_to_name
          /\ consumer'.tool_id_to_input = consumer.tool_id_to_input
          /\ consumer'.agent_containers = consumer.agent_containers
          /\ consumer'.agent_thinking_containers = consumer.agent_thinking_containers
          /\ consumer'.current_text_placeholders = consumer.current_text_placeholders
          /\ consumer'.displayed = consumer.displayed
          /\ consumer'.returned = NotReturned
          /\ consumer'.pc = "iter_lines"
      ]_vars

\* The client read the node_start of financial, a streaming_complete and
\* then a text chunk: the text chunk was added to the text of financial.
C25_Witness ==
    /\ consumer.pc = "iter_lines"
    /\ consumer.lines = <<NodeStartFinancialLine, CompleteLine, TextChunkLine>>
    /\ consumer.current_agent = Str("financial")
    /\ consumer.current_thinking[Str("financial")] = <<"t">>

\* The positions of the events of type t among the events evs.
TypePositions(evs, t) == {i \in 1..Len(evs) : evs[i].type = t}

\* C26: no adapter lets an exception out to its caller, and an error event
\* among the events an adapter yielded is the only one and the last event
\* of a stream that has ended.
C26_NeverRaises ==
    /\ adapter.pc # "raised"
    /\ adapter.exception = NoException
    /\ \A i \in TypePositions(adapter.yielded, "error") :
          /\ i = Len(adapter.yielded)
          /\ adapter.pc = "returned"

\* The events yielded by the step for the model event it read.
YieldedByStep ==
    SubSeq(adapter'.yielded, Len(adapter.yielded) + 1, Len(adapter'.yielded))

\* C28: a step of an adapter that reads a model event with a result yields
\* exactly one streaming_complete, as the last of the events it yields for
\* that model event (after its text_chunk, tool_use and tool_result), and
\* its result is extract_json_from_text of the text of the model's result;
\* a step that reads a model event without a result yields no
\* streaming_complete.
C28_OneCompletePerResult ==
    [][ (adapter.pc = "stream_async"
           /\ Len(adapter'.model_events) = Len(adapter.model_events) + 1) =>
          LET event == adapter'.model_events[Len(adapter'.model_events)]
              new == YieldedByStep
              completes == TypePositions(new, "streaming_complete")
          IN IF "result" \in DOMAIN event
             THEN /\ completes = {Len(new)}
                  /\ new[Len(new)].result
                        = ExtractJsonFromText(Str(event.result.v))
             ELSE completes = {}
      ]_vars

\* The portfolio adapter read the event with a text delta, a tool call and
\* a result: it yielded text_chunk, tool_use and then streaming_complete
\* with the JSON object of the result.
C28_Witness ==
    /\ adapter.agent = "portfolio"
    /\ adapter.model_events = <<DataEvent, FullEvent>>
    /\ Len(adapter.yielded) = 4
    /\ adapter.yielded[3].type = "tool_use"
    /\ adapter.yielded[4] = [k |-> "dict", type |-> "streaming_complete",
                             result |-> Str(<<"{", "a", "}">>)]

\* C27: a step of call_agent_with_streaming that reads a line of text,
\* whatever the line (a record that decodes to a JSON value that is not an
\* object included), raises nothing and leaves the loop reading, so that
\* later lines are still processed.
C27_EveryLineTolerated ==
    [][ (/\ pc = "iter_lines"
         /\ Len(received'[node]) = Len(received[node]) + 1
         /\ ~DecodeRaises(received'[node][Len(received'[node])])) =>
          /\ exception' = NoException
          /\ pc' = "iter_lines"
      ]_vars

\* C29: extract_json_from_text applied to a value it returned returns that
\* value again.
C29_Idempotent ==
    extracted # NotCalled => ExtractJsonFromText(extracted) = extracted

\* The function cut a text down to its braces; applied again it keeps the
\* three characters it returned.
C29_Witness ==
    /\ text_content = Str(<<"a", "{", "}", "}">>)
    /\ extracted = Str(<<"{", "}", "}">>)
    /\ ExtractJsonFromText(extracted) = Str(<<"{", "}", "}">>)

\* C30: when extract_json_from_text has returned, the value returned is
\* the argument itself when the argument is not a string, when it has a
\* '{' but no '}' after the first '{', and when it has a '}' but no '{';
\* and a value returned that differs from the argument is a string that
\* begins with '{', ends with '}' and is a contiguous part of the argument.
C30_UnchangedOrBraced ==
    extracted # NotCalled =>
      /\ text_content.k # "str" => extracted = text_content
      /\ text_content.k = "str" =>
           LET s == text_content.v
               open == PositionsOf(s, "{")
               close == PositionsOf(s, "}")
           IN /\ (open # {} /\ \A j \in close : j < Min(open))
                    => extracted = text_content
              /\ (close # {} /\ open = {}) => extracted = text_content
              /\ extracted # text_content =>
                    /\ extracted.k = "str"
                    /\ Len(extracted.v) > 0
                    /\ extracted.v[1] = "{"
                    /\ extracted.v[Len(extracted.v)] = "}"
                    /\ \E a \in 1..Len(s) : \E b \in a..Len(s) :
                          extracted.v = SubSeq(s, a, b)

\* A text whose only '}' is before its '{' was returned as it is.
C30_Witness ==
    /\ text_content = Str(<<"}", "a", "{">>)
    /\ extracted = text_content

====
